---- MODULE Spec2Model ----
(***************************************************************************)
(* ConfigTree: a hierarchical store of string parameters addressed by      *)
(* dotted keys, with its INI-style reader and its report writer.           *)
(*                                                                         *)
(* A std::string is a sequence of one-character strings, so that find,     *)
(* substr and the trimming helpers are computed as the code computes them. *)
(* A ConfigTree is a record                                                *)
(*   [prefix, valueKeys, subKeys, values, subs]                            *)
(* whose values and subs are functions (the std::map members) and whose    *)
(* valueKeys and subKeys are sequences (the std::vector members).          *)
(* A call that throws is a result record whose err names the throw         *)
(* statement reached: "Collision" (key ... occurs as value and as          *)
(* subtree), "NotFound" (Key/SubTree ... not found), "ParseFailure"        *)
(* (Cannot parse value ...), "DuplicateKey" (Key ... appears twice).       *)
(***************************************************************************)
EXTENDS Integers, Sequences, FiniteSets, TLC

VARIABLES tree, last, nops

vars == <<tree, last, nops>>

-----------------------------------------------------------------------------
(* Bounds of the model. *)

\* number of mutating calls in one behaviour
MaxOps == 2

\* number of segments of the dotted keys given to the calls
MaxDepth == 2

-----------------------------------------------------------------------------
(* std::string helpers. *)

\* std::string::npos: the index no character has (characters count from 0)
npos == -1

\* the character s[i] of the code, i counted from 0
At(s, i) == s[i + 1]

\* s.substr(pos, n); n = npos takes the rest
substr(s, pos, n) ==
  IF n = npos \/ pos + n > Len(s) THEN SubSeq(s, pos + 1, Len(s))
  ELSE SubSeq(s, pos + 1, pos + n)

\* the least and the greatest element of a set of indices, npos when empty
MinIdx(S) == IF S = {} THEN npos ELSE CHOOSE i \in S : \A j \in S : i <= j
MaxIdx(S) == IF S = {} THEN npos ELSE CHOOSE i \in S : \A j \in S : i >= j

\* s.find(c, from)
FindFrom(s, c, from) == MinIdx({i \in from..(Len(s) - 1) : At(s, i) = c})

Find(s, c) == FindFrom(s, c, 0)

\* the characters " \t\n\r" of ltrim, rtrim and split
IsWS(c) == c \in {" ", "\t", "\n", "\r"}

\* s.find_first_not_of(" \t\n\r", from)
FirstNonWS(s, from) == MinIdx({i \in from..(Len(s) - 1) : ~IsWS(At(s, i))})

\* s.find_first_of(" \t\n\r", from)
FirstWS(s, from) == MinIdx({i \in from..(Len(s) - 1) : IsWS(At(s, i))})

\* s.find_last_not_of(" \t\n\r")
LastNonWS(s) == MaxIdx({i \in 0..(Len(s) - 1) : ~IsWS(At(s, i))})

ltrim(s) ==
  LET firstNonWS == FirstNonWS(s, 0)
  IN IF firstNonWS # npos THEN substr(s, firstNonWS, npos) ELSE <<>>

rtrim(s) ==
  LET lastNonWS == LastNonWS(s)
  IN IF lastNonWS # npos THEN substr(s, 0, lastNonWS + 1) ELSE <<>>

\* the code of a character in the classic locale
CharCode(c) ==
  CASE c = "\t" -> 9
    [] c = "\n" -> 10
    [] c = "\f" -> 12
    [] c = "\r" -> 13
    [] c = " "  -> 32
    [] c = "\"" -> 34
    [] c = "#"  -> 35
    [] c = "'"  -> 39
    [] c = "+"  -> 43
    [] c = "-"  -> 45
    [] c = "."  -> 46
    [] c = "0"  -> 48
    [] c = "1"  -> 49
    [] c = "2"  -> 50
    [] c = "3"  -> 51
    [] c = "4"  -> 52
    [] c = "5"  -> 53
    [] c = "6"  -> 54
    [] c = "7"  -> 55
    [] c = "8"  -> 56
    [] c = "9"  -> 57
    [] c = "="  -> 61
    [] c = "["  -> 91
    [] c = "]"  -> 93
    [] c = "a"  -> 97
    [] c = "b"  -> 98
    [] c = "x"  -> 120
    [] OTHER    -> 127

\* std::string operator< : the order in which a std::map iterates its keys
RECURSIVE StrLess(_, _)
StrLess(s, t) ==
  IF t = <<>> THEN FALSE
  ELSE IF s = <<>> THEN TRUE
  ELSE IF CharCode(Head(s)) # CharCode(Head(t))
       THEN CharCode(Head(s)) < CharCode(Head(t))
       ELSE StrLess(Tail(s), Tail(t))

\* the keys of a std::map in iteration order
RECURSIVE MapOrder(_)
MapOrder(S) ==
  IF S = {} THEN <<>>
  ELSE LET m == CHOOSE x \in S : \A y \in S \ {x} : StrLess(x, y)
       IN <<m>> \o MapOrder(S \ {m})

-----------------------------------------------------------------------------
(* The ConfigTree node. *)

EmptyMap == [k \in {} |-> <<>>]

\* ConfigTree(): the default-constructed node, also the static empty_
EmptyTree ==
  [prefix |-> <<>>, valueKeys |-> <<>>, subKeys |-> <<>>,
   values |-> EmptyMap, subs |-> EmptyMap]

MapPut(m, k, v) == [x \in DOMAIN m \cup {k} |-> IF x = k THEN v ELSE m[x]]

\* a returned value
Ret(v) == [err |-> "None", seg |-> <<>>, val |-> v]

\* a thrown std::range_error; seg is the key its message names
Throw(kind, key) == [err |-> kind, seg |-> key, val |-> <<>>]

\* const sub(key, fail_if_missing): val is the node referred to
RECURSIVE subConst(_, _, _)
subConst(t, key, fail_if_missing) ==
  LET dot == Find(key, ".")
      Rest(s) ==
        IF s.err # "None" THEN s
        ELSE subConst(s.val, substr(key, dot + 1, npos), FALSE)
  IN IF dot # npos THEN Rest(subConst(t, substr(key, 0, dot), FALSE))
     ELSE IF key \in DOMAIN t.values THEN Throw("Collision", key)
          ELSE IF key \notin DOMAIN t.subs
               THEN IF fail_if_missing THEN Throw("NotFound", key)
                    ELSE Ret(EmptyTree)
               ELSE Ret(t.subs[key])

RECURSIVE hasKey(_, _)
hasKey(t, key) ==
  LET dot == Find(key, ".")
      Rest(s) ==
        IF s.err # "None" THEN s ELSE hasKey(s.val, substr(key, dot + 1, npos))
      Descend(prefix) ==
        IF prefix \notin DOMAIN t.subs THEN Ret(FALSE)
        ELSE IF prefix \in DOMAIN t.values THEN Throw("Collision", prefix)
        ELSE Rest(subConst(t, prefix, FALSE))
  IN IF dot # npos THEN Descend(substr(key, 0, dot))
     ELSE IF key \in DOMAIN t.values
          THEN IF key \in DOMAIN t.subs THEN Throw("Collision", key)
               ELSE Ret(TRUE)
          ELSE Ret(FALSE)

RECURSIVE hasSub(_, _)
hasSub(t, key) ==
  LET dot == Find(key, ".")
      Rest(s) ==
        IF s.err # "None" THEN s ELSE hasSub(s.val, substr(key, dot + 1, npos))
      Descend(prefix) ==
        IF prefix \notin DOMAIN t.subs THEN Ret(FALSE)
        ELSE IF prefix \in DOMAIN t.values THEN Throw("Collision", prefix)
        ELSE Rest(subConst(t, prefix, FALSE))
  IN IF dot # npos THEN Descend(substr(key, 0, dot))
     ELSE IF key \in DOMAIN t.subs
          THEN IF key \in DOMAIN t.values THEN Throw("Collision", key)
               ELSE Ret(TRUE)
          ELSE Ret(FALSE)

\* const operator[]: val is the stored string
RECURSIVE IndexConst(_, _)
IndexConst(t, key) ==
  LET dot == Find(key, ".")
      Rest(s) ==
        IF s.err # "None" THEN s
        ELSE IndexConst(s.val, substr(key, dot + 1, npos))
      Leaf(h) ==
        IF h.err # "None" THEN h
        ELSE IF ~h.val THEN Throw("NotFound", key)
        ELSE Ret(t.values[key])
  IN IF dot # npos THEN Rest(subConst(t, substr(key, 0, dot), FALSE))
     ELSE Leaf(hasKey(t, key))

-----------------------------------------------------------------------------
(* The mutable accessors.  A result carries the tree as the call leaves it  *)
(* (also when it throws) and, for the reference returned, the keys of the   *)
(* subtrees leading to the node referred to.                                *)

MutRet(t, at) == [err |-> "None", seg |-> <<>>, tree |-> t, at |-> at]

MutThrow(kind, key, t) == [err |-> kind, seg |-> key, tree |-> t, at |-> <<>>]

\* subs_[key].prefix_ = prefix_ + key + "." : inserts a default node if absent
SetSubPrefix(t, key) ==
  LET child == IF key \in DOMAIN t.subs THEN t.subs[key] ELSE EmptyTree
  IN [t EXCEPT !.subs =
        MapPut(t.subs, key, [child EXCEPT !.prefix = t.prefix \o key \o <<".">>])]

\* a variant of the mutable sub without the test for a leaf value of the same
\* name, which C2_SubCollision has to tell from subMut
RECURSIVE subMutNoCollision(_, _)
subMutNoCollision(t, key) ==
  LET dot == Find(key, ".")
      Leaf ==
        MutRet(SetSubPrefix(IF key \notin DOMAIN t.subs
                            THEN [t EXCEPT !.subKeys = Append(@, substr(key, 0, dot))]
                            ELSE t, key), <<key>>)
      Inner(k, s, r) ==
        [err |-> r.err, seg |-> r.seg,
         tree |-> [s.tree EXCEPT !.subs = MapPut(s.tree.subs, k, r.tree)],
         at |-> <<k>> \o r.at]
      Outer(k, s) ==
        Inner(k, s, subMutNoCollision(s.tree.subs[k], substr(key, dot + 1, npos)))
  IN IF dot # npos THEN Outer(substr(key, 0, dot), subMutNoCollision(t, substr(key, 0, dot)))
     ELSE Leaf

\* a variant of the mutable sub that enters the key into subKeys_ before it
\* tests for a leaf value of the same name, so that a call that throws leaves
\* the key behind; C21_FailureAtomic has to tell it from subMut
RECURSIVE subMutRegistersFirst(_, _)
subMutRegistersFirst(t, key) ==
  LET dot == Find(key, ".")
      Registered ==
        IF key \notin DOMAIN t.subs
        THEN [t EXCEPT !.subKeys = Append(@, substr(key, 0, dot))]
        ELSE t
      Leaf ==
        IF key \in DOMAIN t.values THEN MutThrow("Collision", key, Registered)
        ELSE MutRet(SetSubPrefix(Registered, key), <<key>>)
      Inner(k, s, r) ==
        [err |-> r.err, seg |-> r.seg,
         tree |-> [s.tree EXCEPT !.subs = MapPut(s.tree.subs, k, r.tree)],
         at |-> <<k>> \o r.at]
      Outer(k, s) ==
        IF s.err # "None" THEN s
        ELSE Inner(k, s, subMutRegistersFirst(s.tree.subs[k], substr(key, dot + 1, npos)))
  IN IF dot # npos THEN Outer(substr(key, 0, dot), subMutRegistersFirst(t, substr(key, 0, dot)))
     ELSE Leaf

\* mutable sub(key)
RECURSIVE subMut(_, _)
subMut(t, key) ==
  LET dot == Find(key, ".")
      Leaf ==
        IF key \in DOMAIN t.values THEN MutThrow("Collision", key, t)
        ELSE MutRet(SetSubPrefix(IF key \notin DOMAIN t.subs
                                 THEN [t EXCEPT !.subKeys = Append(@, substr(key, 0, dot))]
                                 ELSE t, key), <<key>>)
      Inner(k, s, r) ==
        [err |-> r.err, seg |-> r.seg,
         tree |-> [s.tree EXCEPT !.subs = MapPut(s.tree.subs, k, r.tree)],
         at |-> <<k>> \o r.at]
      Outer(k, s) ==
        IF s.err # "None" THEN s
        ELSE Inner(k, s, subMut(s.tree.subs[k], substr(key, dot + 1, npos)))
  IN IF dot # npos THEN Outer(substr(key, 0, dot), subMut(t, substr(key, 0, dot)))
     ELSE Leaf

\* values_[key]: inserts an empty string if absent
TouchValue(t, key) ==
  IF key \in DOMAIN t.values THEN t
  ELSE [t EXCEPT !.values = MapPut(t.values, key, <<>>)]

\* a variant of the mutable operator[] that appends the key to valueKeys_ on
\* every access, which C7_KeyOrder has to tell from IndexMut
RECURSIVE IndexMutAlwaysAppends(_, _)
IndexMutAlwaysAppends(t, key) ==
  LET dot == Find(key, ".")
      Leaf(h) ==
        IF h.err # "None" THEN MutThrow(h.err, h.seg, t) @@ [leaf |-> <<>>]
        ELSE MutRet(TouchValue([t EXCEPT !.valueKeys = Append(@, key)], key), <<>>)
               @@ [leaf |-> key]
      Inner(k, s, r) ==
        [err |-> r.err, seg |-> r.seg,
         tree |-> [s.tree EXCEPT !.subs = MapPut(s.tree.subs, k, r.tree)],
         at |-> IF r.err = "None" THEN <<k>> \o r.at ELSE <<>>,
         leaf |-> r.leaf]
      Outer(k, s) ==
        IF s.err # "None" THEN [s EXCEPT !.at = <<>>] @@ [leaf |-> <<>>]
        ELSE Inner(k, s, IndexMutAlwaysAppends(s.tree.subs[k], substr(key, dot + 1, npos)))
  IN IF dot # npos THEN Outer(substr(key, 0, dot), subMut(t, substr(key, 0, dot)))
     ELSE Leaf(hasKey(t, key))

\* mutable operator[]: at leads to the node, leaf is the key of the string in it
RECURSIVE IndexMut(_, _)
IndexMut(t, key) ==
  LET dot == Find(key, ".")
      Leaf(h) ==
        IF h.err # "None" THEN MutThrow(h.err, h.seg, t) @@ [leaf |-> <<>>]
        ELSE MutRet(TouchValue(IF ~h.val THEN [t EXCEPT !.valueKeys = Append(@, key)]
                               ELSE t, key), <<>>) @@ [leaf |-> key]
      Inner(k, s, r) ==
        [err |-> r.err, seg |-> r.seg,
         tree |-> [s.tree EXCEPT !.subs = MapPut(s.tree.subs, k, r.tree)],
         at |-> IF r.err = "None" THEN <<k>> \o r.at ELSE <<>>,
         leaf |-> r.leaf]
      Outer(k, s) ==
        IF s.err # "None" THEN [s EXCEPT !.at = <<>>] @@ [leaf |-> <<>>]
        ELSE Inner(k, s, IndexMut(s.tree.subs[k], substr(key, dot + 1, npos)))
  IN IF dot # npos THEN Outer(substr(key, 0, dot), subMut(t, substr(key, 0, dot)))
     ELSE Leaf(hasKey(t, key))

\* assignment through the std::string& that operator[] returned
RECURSIVE AssignAt(_, _, _, _)
AssignAt(t, at, leaf, value) ==
  IF at = <<>> THEN [t EXCEPT !.values = MapPut(t.values, leaf, value)]
  ELSE [t EXCEPT !.subs =
          MapPut(t.subs, Head(at), AssignAt(t.subs[Head(at)], Tail(at), leaf, value))]

\* pt[key] = value
IndexAssign(t, key, value) ==
  LET Store(r) ==
        IF r.err # "None" THEN r
        ELSE [r EXCEPT !.tree = AssignAt(r.tree, r.at, r.leaf, value)]
  IN Store(IndexMut(t, key))

\* the node a reference returned by the mutable sub refers to
RECURSIVE NodeAt(_, _)
NodeAt(t, at) == IF at = <<>> THEN t ELSE NodeAt(t.subs[Head(at)], Tail(at))

getValueKeys(t) == t.valueKeys

getSubKeys(t) == t.subKeys

-----------------------------------------------------------------------------
(* Typed value conversion. *)

IsDigit(c) == CharCode(c) \in 48..57

\* std::isspace in the classic locale, which operator>> skips
IsSpace(c) == IsWS(c) \/ c = "\f"

RECURSIVE DecimalValue(_)
DecimalValue(ds) ==
  IF ds = <<>> THEN 0
  ELSE 10 * DecimalValue(SubSeq(ds, 1, Len(ds) - 1)) + (CharCode(ds[Len(ds)]) - 48)

\* a std::istringstream just constructed on a string
StreamInit == [pos |-> 0, fail |-> FALSE, eof |-> FALSE, val |-> 0]

\* s >> val for an int: the stream after the extraction, with the value read
ExtractInt(str, st) ==
  LET n == Len(str)
      \* the digits str[d..q-1] read after the sign, q = d when there is none
      Digits(neg, d, q) ==
        IF q = d THEN [pos |-> d, fail |-> TRUE, eof |-> (d = n), val |-> 0]
        ELSE LET mag == DecimalValue(SubSeq(str, d + 1, q))
                 v == IF neg THEN 0 - mag ELSE mag
             IN [pos |-> q, fail |-> (v > 2147483647 \/ v < -2147483647 - 1),
                 eof |-> (q = n), val |-> v]
      From(neg, d, stop) == Digits(neg, d, IF stop = npos THEN n ELSE stop)
      Number(neg, d) == From(neg, d, MinIdx({i \in d..(n - 1) : ~IsDigit(At(str, i))}))
      \* p is the first character that is no white space
      Skipped(p) ==
        IF p = npos THEN [pos |-> n, fail |-> TRUE, eof |-> TRUE, val |-> 0]
        ELSE IF At(str, p) \in {"+", "-"} THEN Number(At(str, p) = "-", p + 1)
        ELSE Number(FALSE, p)
  IN IF st.fail \/ st.eof THEN [st EXCEPT !.fail = TRUE]
     ELSE Skipped(MinIdx({i \in st.pos..(n - 1) : ~IsSpace(At(str, i))}))

ParseOk(v) == [ok |-> TRUE, val |-> v]

ParseFail == [ok |-> FALSE, val |-> <<>>]

\* Parser<T>::parse for T = int
ParseInt(str) ==
  LET Second(s1, s2) ==
        IF (~s2.fail) \/ (~s2.eof) THEN ParseFail ELSE ParseOk(s1.val)
      First(s1) == IF s1.fail THEN ParseFail ELSE Second(s1, ExtractInt(str, s1))
  IN First(ExtractInt(str, StreamInit))

\* Parser<std::basic_string>::parse
ParseString(str) == ParseOk(ltrim(rtrim(str)))

\* Parser<T>::parse by the type asked for
Parse(T, str) == IF T = "int" THEN ParseInt(str) ELSE ParseString(str)

\* get<T>(key)
Get(t, key, T) ==
  LET Parsed(p) == IF p.ok THEN Ret(p.val) ELSE Throw("ParseFailure", key)
      Raw(raw) == IF raw.err # "None" THEN raw ELSE Parsed(Parse(T, raw.val))
      Found(h) ==
        IF h.err # "None" THEN h
        ELSE IF ~h.val THEN Throw("NotFound", key)
        ELSE Raw(IndexConst(t, key))
  IN Found(hasKey(t, key))

\* a variant of get<T>(key, defaultValue) that returns the default whenever
\* get<T>(key) would throw, which C10_DefaultAccessor has to tell from GetDefault
GetDefaultNeverThrows(t, key, T, defaultValue) ==
  LET Caught(r) == IF r.err # "None" THEN Ret(defaultValue) ELSE r
  IN Caught(Get(t, key, T))

\* get<T>(key, defaultValue)
GetDefault(t, key, T, defaultValue) ==
  LET Found(h) ==
        IF h.err # "None" THEN h
        ELSE IF h.val THEN Get(t, key, T) ELSE Ret(defaultValue)
  IN Found(hasKey(t, key))

\* get(key, const std::string& defaultValue) and get(key, const char* defaultValue)
GetStringDefault(t, key, defaultValue) ==
  LET Found(h) ==
        IF h.err # "None" THEN h
        ELSE IF h.val THEN IndexConst(t, key) ELSE Ret(defaultValue)
  IN Found(hasKey(t, key))

-----
(* report: the text written to the stream, std::endl being a line feed. *)

RECURSIVE report(_, _)
report(t, prefix) ==
  LET vit == MapOrder(DOMAIN t.values)
      sit == MapOrder(DOMAIN t.subs)
      ValueLines[i \in 0..Len(vit)] ==
        IF i = 0 THEN <<>>
        ELSE ValueLines[i - 1] \o vit[i] \o <<" ", "=", " ", "\"">>
               \o t.values[vit[i]] \o <<"\"", "\n">>
      SubBlocks[i \in 0..Len(sit)] ==
        IF i = 0 THEN <<>>
        ELSE SubBlocks[i - 1] \o <<"[", " ">> \o prefix \o t.prefix \o sit[i]
               \o <<" ", "]", "\n">> \o report(t.subs[sit[i]], prefix)
  IN ValueLines[Len(vit)] \o SubBlocks[Len(sit)]

-----------------------------------------------------------------------------
(* readINITree.  The std::istream is the characters not yet read and its    *)
(* eofbit.                                                                  *)

StreamOf(text) == [rest |-> text, eof |-> FALSE]

\* getline(in, line) on a stream whose eofbit is clear
getline(in) ==
  LET nl == Find(in.rest, "\n")
  IN IF nl # npos
     THEN [line |-> substr(in.rest, 0, nl),
           in |-> [rest |-> substr(in.rest, nl + 1, npos), eof |-> FALSE]]
     ELSE [line |-> in.rest, in |-> [rest |-> <<>>, eof |-> TRUE]]

\* one pass of the loop that reads a quoted value: the next line is appended,
\* or the quote itself once the stream is at its end
QuotedMore(in, value, quote) ==
  IF ~in.eof
  THEN LET g == getline(in)
       IN [in |-> g.in, value |-> value \o <<"\n">> \o g.line]
  ELSE [in |-> in, value |-> value \o <<quote>>]

\* a variant of the loop condition that takes an empty string as closed, so
\* that a value with nothing after its opening quote ends on its own line;
\* C22_UnclosedQuote has to tell it from QuoteClosed
QuoteClosedOnEmpty(r, quote) == IF r = <<>> THEN TRUE ELSE At(r, Len(r) - 1) = quote

\* whether the loop condition *(rtrim(value).rbegin()) not_eq quote is false.
\* On an empty string the read is of the character before the string's own
\* characters: rtrim returns a std::string() there, whose characters lie in
\* the object itself after its length, and the byte read is the top byte of
\* that length, zero, which is no quote.
QuoteClosed(r, quote) == IF r = <<>> THEN FALSE ELSE At(r, Len(r) - 1) = quote

\* the loop that reads a quoted value up to the line that ends with the quote,
\* and the value with that quote removed
RECURSIVE QuotedValue(_, _, _)
QuotedValue(in, value, quote) ==
  IF QuoteClosed(rtrim(value), quote)
  THEN [in |-> in, value |-> substr(rtrim(value), 0, Len(rtrim(value)) - 1)]
  ELSE LET m == QuotedMore(in, value, quote)
       IN QuotedValue(m.in, m.value, quote)

\* the value of a line key = value, from the text after the "="
ReadValue(in, text) ==
  LET value == ltrim(text)
  IN IF Len(value) > 0
     THEN IF At(value, 0) = "'" \/ At(value, 0) = "\""
          THEN QuotedValue(in, substr(value, 1, npos), At(value, 0))
          ELSE [in |-> in, value |-> rtrim(value)]
     ELSE [in |-> in, value |-> value]

\* the prefix after a line that starts with "["
SectionPrefix(prefix, line0) ==
  LET line == rtrim(line0)
  IN IF At(line, Len(line) - 1) = "]"
     THEN LET p == rtrim(ltrim(substr(line, 1, Len(line) - 2)))
          IN IF p # <<>> THEN p \o <<".">> ELSE p
     ELSE prefix

\* the reader between two passes of the while loop
ReaderInit(text, pt) ==
  [in |-> StreamOf(text), pt |-> pt, prefix |-> <<>>, keysInFile |-> {},
   err |-> "None", seg |-> <<>>]

\* the line key = value: the duplicate check and the store
StoreEntry(st, in, key, value, overwrite) ==
  LET Stored(w) ==
        IF w.err # "None"
        THEN [st EXCEPT !.in = in, !.pt = w.tree, !.err = w.err, !.seg = w.seg]
        ELSE [st EXCEPT !.in = in, !.pt = w.tree, !.keysInFile = @ \cup {key}]
      Checked(h) ==
        IF h.err # "None" THEN [st EXCEPT !.in = in, !.err = h.err, !.seg = h.seg]
        ELSE IF overwrite \/ ~h.val THEN Stored(IndexAssign(st.pt, key, value))
        ELSE [st EXCEPT !.in = in, !.keysInFile = @ \cup {key}]
  IN IF key \in st.keysInFile
     THEN [st EXCEPT !.in = in, !.err = "DuplicateKey", !.seg = key]
     ELSE Checked(IF overwrite THEN Ret(FALSE) ELSE hasKey(st.pt, key))

\* the default case of the switch, on the line and the stream after it
EntryLine(st, in, line0, overwrite) ==
  LET Valued(key, rv) == StoreEntry(st, rv.in, key, rv.value, overwrite)
      Split(line, mid) ==
        IF mid = npos THEN [st EXCEPT !.in = in]
        ELSE Valued(st.prefix \o rtrim(ltrim(substr(line, 0, mid))),
                    ReadValue(in, substr(line, mid + 1, npos)))
      Uncommented(line) == Split(line, Find(line, "="))
  IN Uncommented(substr(line0, 0, Find(line0, "#")))

\* the body of the while loop on a line read and left-trimmed
ReadLine(st, in, line, overwrite) ==
  IF Len(line) = 0 THEN [st EXCEPT !.in = in]
  ELSE IF At(line, 0) = "#" THEN [st EXCEPT !.in = in]
  ELSE IF At(line, 0) = "["
       THEN [st EXCEPT !.in = in, !.prefix = SectionPrefix(st.prefix, line)]
  ELSE EntryLine(st, in, line, overwrite)

\* one pass of the while loop
ReadStep(st, overwrite) ==
  LET g == getline(st.in)
  IN ReadLine(st, g.in, ltrim(g.line), overwrite)

\* the while loop of readINITree, up to the end of the stream or a throw
RECURSIVE ReadLoop(_, _)
ReadLoop(st, overwrite) ==
  IF st.in.eof \/ st.err # "None" THEN st
  ELSE ReadLoop(ReadStep(st, overwrite), overwrite)

\* readINITree(in, pt, srcname, overwrite): the error thrown and the tree left
readINITree(text, pt, overwrite) ==
  LET Result(st) == [err |-> st.err, seg |-> st.seg, tree |-> st.pt]
  IN Result(ReadLoop(ReaderInit(text, pt), overwrite))

-----------------------------------------------------------------------------
(* The calls a client makes on one tree. *)

\* the segments of the keys used
Segs == {<<"a">>, <<"b">>}

\* the dotted key of a sequence of segments
RECURSIVE Dotted(_)
Dotted(segs) ==
  IF Len(segs) = 1 THEN segs[1] ELSE segs[1] \o <<".">> \o Dotted(Tail(segs))

Keys == {Dotted(segs) : segs \in UNION {[1..n -> Segs] : n \in 1..MaxDepth}}

\* the strings written
Values == {<<"1">>, <<" ", "x">>}

\* the defaults given to the accessors with a default
StrDefault == <<"d">>

Types == {"int", "string"}

Call(op, key, arg, r) == [op |-> op, key |-> key, arg |-> arg] @@ r

Init ==
  /\ tree = EmptyTree
  /\ last = Call("new", <<>>, <<>>, Ret(<<>>))
  /\ nops = 0

\* pt[key] = value
Write(key, value) ==
  /\ nops < MaxOps
  /\ LET Done(r) ==
           /\ tree' = r.tree
           /\ last' = Call("write", key, value, [err |-> r.err, seg |-> r.seg, val |-> r.at])
     IN Done(IndexAssign(tree, key, value))
  /\ nops' = nops + 1

\* pt.sub(key) on the mutable tree
SubMutable(key) ==
  /\ nops < MaxOps
  /\ LET Done(r) ==
           /\ tree' = r.tree
           /\ last' = Call("subMut", key, <<>>, [err |-> r.err, seg |-> r.seg, val |-> r.at])
     IN Done(subMut(tree, key))
  /\ nops' = nops + 1

HasKey(key) ==
  /\ last' = Call("hasKey", key, <<>>, hasKey(tree, key))
  /\ UNCHANGED <<tree, nops>>

HasSub(key) ==
  /\ last' = Call("hasSub", key, <<>>, hasSub(tree, key))
  /\ UNCHANGED <<tree, nops>>

\* pt.sub(key, fail_if_missing) on the const tree
SubConst(key, fail_if_missing) ==
  /\ last' = Call("subConst", key, fail_if_missing, subConst(tree, key, fail_if_missing))
  /\ UNCHANGED <<tree, nops>>

\* pt[key] on the const tree
ReadIndex(key) ==
  /\ last' = Call("index", key, <<>>, IndexConst(tree, key))
  /\ UNCHANGED <<tree, nops>>

\* pt.get<T>(key)
GetTyped(key, T) ==
  /\ last' = Call("get", key, T, Get(tree, key, T))
  /\ UNCHANGED <<tree, nops>>

\* pt.get<int>(key, 7)
GetIntDefault(key) ==
  /\ last' = Call("getIntDefault", key, 7, GetDefault(tree, key, "int", 7))
  /\ UNCHANGED <<tree, nops>>

\* pt.get(key, "d")
GetStrDefault(key) ==
  /\ last' = Call("getStrDefault", key, StrDefault,
                  GetStringDefault(tree, key, StrDefault))
  /\ UNCHANGED <<tree, nops>>

\* pt.report(stream)
Report ==
  /\ last' = Call("report", <<>>, <<>>, Ret(report(tree, <<>>)))
  /\ UNCHANGED <<tree, nops>>

\* testReport: report the tree and read the text back into an empty tree
TestReport ==
  /\ LET Done(r) ==
           last' = Call("testReport", <<>>, <<>>,
                        [err |-> r.err, seg |-> r.seg, val |-> r.tree])
     IN Done(readINITree(report(tree, <<>>), EmptyTree, TRUE))
  /\ UNCHANGED <<tree, nops>>

Next ==
  \/ \E key \in Keys, value \in Values : Write(key, value)
  \/ \E key \in Keys : SubMutable(key)
  \/ \E key \in Keys : HasKey(key)
  \/ \E key \in Keys : HasSub(key)
  \/ \E key \in Keys, f \in BOOLEAN : SubConst(key, f)
  \/ \E key \in Keys : ReadIndex(key)
  \/ \E key \in Keys, T \in Types : GetTyped(key, T)
  \/ \E key \in Keys : GetIntDefault(key)
  \/ \E key \in Keys : GetStrDefault(key)
  \/ Report
  \/ TestReport

Spec == Init /\ [][Next]_vars

-----------------------------------------------------------------------------
(* The parsers of bool and of sequences. *)

UpperCase ==
  <<"A", "B", "C", "D", "E", "F", "G", "H", "I", "J", "K", "L", "M",
    "N", "O", "P", "Q", "R", "S", "T", "U", "V", "W", "X", "Y", "Z">>

LowerCase ==
  <<"a", "b", "c", "d", "e", "f", "g", "h", "i", "j", "k", "l", "m",
    "n", "o", "p", "q", "r", "s", "t", "u", "v", "w", "x", "y", "z">>

\* std::tolower(c, std::locale::classic())
ToLower(c) ==
  IF \E i \in 1..26 : UpperCase[i] = c
  THEN LowerCase[CHOOSE i \in 1..26 : UpperCase[i] = c]
  ELSE c

\* std::transform(ret.begin(), ret.end(), ret.begin(), ToLower())
ToLowerString(str) == [i \in 1..Len(str) |-> ToLower(str[i])]

\* a variant of Parser<bool>::parse that compares the string as it is given,
\* which C12_BoolParse has to tell from ParseBool
ParseBoolCaseSensitive(str) ==
  LET AsInt(p) == IF p.ok THEN ParseOk(p.val # 0) ELSE ParseFail
  IN IF str = <<"y", "e", "s">> \/ str = <<"t", "r", "u", "e">> THEN ParseOk(TRUE)
     ELSE IF str = <<"n", "o">> \/ str = <<"f", "a", "l", "s", "e">> THEN ParseOk(FALSE)
     ELSE AsInt(ParseInt(str))

\* Parser<bool>::parse
ParseBool(str) ==
  LET AsInt(p) == IF p.ok THEN ParseOk(p.val # 0) ELSE ParseFail
      Lowered(ret) ==
        IF ret = <<"y", "e", "s">> \/ ret = <<"t", "r", "u", "e">> THEN ParseOk(TRUE)
        ELSE IF ret = <<"n", "o">> \/ ret = <<"f", "a", "l", "s", "e">> THEN ParseOk(FALSE)
        ELSE AsInt(ParseInt(ret))
  IN Lowered(ToLowerString(str))

\* back - front in std::size_t.  With back = npos and front an index the
\* difference is no less than the length of any string, and npos stands for it.
SizeDiff(back, front) ==
  IF back = npos /\ front # npos THEN npos ELSE back - front

\* a variant of the loop of split that takes back - front as a signed number,
\* so that the run which ends the string is left out; C14_SplitAndVector has
\* to tell it from splitLoop
RECURSIVE splitLoopSigned(_, _, _)
splitLoopSigned(s, back, substrings) ==
  LET Looped(front, b, pushed) ==
        IF front = npos THEN pushed ELSE splitLoopSigned(s, b, pushed)
      Sized(front, b, size) ==
        Looped(front, b, IF size > 0 THEN Append(substrings, substr(s, front, size))
                         ELSE substrings)
      Backed(front, b) == Sized(front, b, b - front)
      Fronted(front) == Backed(front, IF front = npos THEN npos ELSE FirstWS(s, front))
  IN Fronted(IF back = npos THEN npos ELSE FirstNonWS(s, back))

\* the while loop of split, entered with back and the substrings found so far;
\* a search that starts at npos finds nothing
RECURSIVE splitLoop(_, _, _)
splitLoop(s, back, substrings) ==
  LET Looped(front, b, pushed) ==
        IF front = npos THEN pushed ELSE splitLoop(s, b, pushed)
      Sized(front, b, size) ==
        Looped(front, b, IF size # 0 THEN Append(substrings, substr(s, front, size))
                         ELSE substrings)
      Backed(front, b) == Sized(front, b, SizeDiff(b, front))
      Fronted(front) == Backed(front, IF front = npos THEN npos ELSE FirstWS(s, front))
  IN Fronted(IF back = npos THEN npos ELSE FirstNonWS(s, back))

\* split(s)
split(s) == splitLoop(s, 0, <<>>)

\* parseRange(str, it, end) over n places: the n extractions, then the one
\* into dummy that has to fail at the end of the stream
RECURSIVE parseRange(_, _, _, _)
parseRange(str, st, n, vals) ==
  LET Dummy(s2) == IF (~s2.fail) \/ (~s2.eof) THEN ParseFail ELSE ParseOk(vals)
      Item(s1) ==
        IF s1.fail THEN ParseFail
        ELSE parseRange(str, s1, n - 1, Append(vals, s1.val))
  IN IF n = 0 THEN Dummy(ExtractInt(str, st)) ELSE Item(ExtractInt(str, st))

\* Parser<std::array<int, n>>::parse
ParseArray(str, n) == parseRange(str, StreamInit, n, <<>>)

\* the loop of Parser<std::vector<T>>::parse over the substrings
RECURSIVE ParseEach(_, _, _)
ParseEach(T, sub, vec) ==
  LET One(p) ==
        IF ~p.ok THEN ParseFail ELSE ParseEach(T, Tail(sub), Append(vec, p.val))
  IN IF sub = <<>> THEN ParseOk(vec) ELSE One(Parse(T, Head(sub)))

\* Parser<std::vector<T>>::parse
ParseVector(T, str) == ParseEach(T, split(str), <<>>)

-----------------------------------------------------------------------------
(* The parsers applied to one string: the string is chosen at the start,    *)
(* and one call is made on it.                                              *)

ParseMaxLen == 4

MaxArity == 2

ParseAlphabet == {"0", "1", " ", "-", "a"}

\* strings of the kinds the tests read
ParseSamples ==
  { <<"1", "2", "a", "b", "c">>, <<"1", "2", " ", "1", "3">>, <<"\t", "1", "2", "\n">>,
    <<"1", "\t", "\r", "\n", "2", " ">>,
    <<"y", "e", "s">>, <<"Y", "e", "s">>, <<"Y", "E", "S">>, <<"t", "r", "u", "e">>,
    <<"T", "r", "U", "e">>, <<"n", "o">>, <<"N", "O">>, <<"f", "a", "l", "s", "e">>,
    <<"F", "a", "l", "s", "E">>, <<"m", "a", "y", "b", "e">>, <<"y", "e", "s", " ">>,
    <<"2">>, <<"+", "1">>, <<"1", "+", "2">> }

ParseInputs ==
  UNION {[1..n -> ParseAlphabet] : n \in 0..ParseMaxLen} \cup ParseSamples

\* the outcome of a call of Parser<T>::parse itself: the value returned, or
\* the RangeError thrown, which names no key
Outcome(p) == IF p.ok THEN Ret(p.val) ELSE Throw("ParseFailure", <<>>)

ParseInit ==
  /\ tree = EmptyTree
  /\ last \in {Call("input", str, <<>>, Ret(<<>>)) : str \in ParseInputs}
  /\ nops = 0

\* pt["a"] = str; pt.get<int>(key)
StoreAndGet(key) ==
  /\ last.op = "input"
  /\ LET Done(w) ==
           /\ tree' = w.tree
           /\ last' = Call("getInt", key, last.key, Get(w.tree, key, "int"))
     IN Done(IndexAssign(tree, <<"a">>, last.key))
  /\ UNCHANGED nops

\* Parser<bool>::parse(str)
CallParseBool ==
  /\ last.op = "input"
  /\ last' = Call("parseBool", last.key, <<>>, Outcome(ParseBool(last.key)))
  /\ UNCHANGED <<tree, nops>>

\* Parser<std::array<int, n>>::parse(str)
CallParseArray(n) ==
  /\ last.op = "input"
  /\ last' = Call("parseArray", last.key, n, Outcome(ParseArray(last.key, n)))
  /\ UNCHANGED <<tree, nops>>

\* split(str)
CallSplit ==
  /\ last.op = "input"
  /\ last' = Call("split", last.key, <<>>, Ret(split(last.key)))
  /\ UNCHANGED <<tree, nops>>

\* Parser<std::vector<T>>::parse(str)
CallParseVector(T) ==
  /\ last.op = "input"
  /\ last' = Call("parseVector", last.key, T, Outcome(ParseVector(T, last.key)))
  /\ UNCHANGED <<tree, nops>>

ParseNext ==
  \/ \E key \in Segs : StoreAndGet(key)
  \/ CallParseBool
  \/ \E n \in 1..MaxArity : CallParseArray(n)
  \/ CallSplit
  \/ \E T \in Types : CallParseVector(T)

ParseSpec == ParseInit /\ [][ParseNext]_vars

-----------------------------------------------------------------------------
(* readINITree on one text, one pass of its loop at a time.  last holds the *)
(* locals of the call between two passes, and the text the call was given.  *)

MaxLines == 3

\* the lines the texts are made of
IniLines ==
  { <<>>,
    <<"#", "a", "=", "1">>,
    <<"[", "a", "]">>,
    <<"[", "]">>,
    <<" ", "[", " ", "b", " ", "]", " ">>,
    <<"a", " ", "=", " ", "1">>,
    <<" ", "b", "=", "2", " ", "#", "x">>,
    <<"a", ".", "b", " ", "=", " ", "1">>,
    <<"b", " ", "=", " ", "'", " ", "x">>,
    <<"x", " ", "'", " ">>,
    <<"a", " ", "=", " ", "\"", "1", "#", "2", "\"">>,
    <<"b", "=", "\"", " ", "x", " ", "\"">>,
    <<"a", " ", "=", " ", "\"">>,
    <<"b", "=", "'", "#">> }

\* the lines joined by line feeds
RECURSIVE JoinLines(_)
JoinLines(lines) ==
  IF Len(lines) = 1 THEN lines[1]
  ELSE lines[1] \o <<"\n">> \o JoinLines(Tail(lines))

IniTexts == {JoinLines(ls) : ls \in UNION {[1..n -> IniLines] : n \in 1..MaxLines}}

\* the trees read into: an empty one and one that holds a.b
IniTrees == {EmptyTree, IndexAssign(EmptyTree, <<"a", ".", "b">>, <<"0">>).tree}

IniInit ==
  /\ tree \in IniTrees
  /\ last \in {[op |-> "open", in |-> StreamOf(text), prefix |-> <<>>,
                keysInFile |-> {}, err |-> "None", seg |-> <<>>,
                overwrite |-> overwrite, text |-> text] :
               text \in IniTexts, overwrite \in BOOLEAN}
  /\ nops = 0

\* one pass of the while loop of readINITree
ReadNext ==
  /\ last.op \in {"open", "line"}
  /\ last.err = "None"
  /\ ~last.in.eof
  /\ LET Done(st) ==
           /\ tree' = st.pt
           /\ last' = [op |-> "line", in |-> st.in, prefix |-> st.prefix,
                       keysInFile |-> st.keysInFile, err |-> st.err, seg |-> st.seg,
                       overwrite |-> last.overwrite, text |-> last.text]
     IN Done(ReadStep([in |-> last.in, pt |-> tree, prefix |-> last.prefix,
                       keysInFile |-> last.keysInFile, err |-> "None", seg |-> <<>>],
                      last.overwrite))
  /\ UNCHANGED nops

IniNext == ReadNext

IniSpec == IniInit /\ [][IniNext]_vars

-----------------------------------------------------------------------------
(* readNamedOptions, one pass of its loop at a time.  last holds the        *)
(* arguments and the locals of the call between two passes.                 *)

\* the locals at the entry of the loop
OptionsInit(argv, keywords, required, allow_more, overwrite) ==
  [op |-> "args", argv |-> argv, i |-> 1,
   done |-> [k \in 1..Len(keywords) |-> FALSE], current |-> 0,
   err |-> "None", seg |-> <<>>,
   keywords |-> keywords, required |-> required,
   allow_more |-> allow_more, overwrite |-> overwrite]

\* std::find(keywords.begin(), keywords.end(), key), npos for keywords.end()
FindKeyword(keywords, key) ==
  MinIdx({k \in 0..(Len(keywords) - 1) : At(keywords, k) = key})

\* a throw out of the loop
OptionsThrow(st, pt, kind, what) ==
  [st |-> [st EXCEPT !.op = "arg", !.err = kind, !.seg = what], pt |-> pt]

\* the test not overwrite and pt[key] not_eq "", and pt[key] = value with the
\* keyword at it, if any, marked as done
StoreOption(st, pt, key, value, it) ==
  LET Marked == IF it = npos THEN st.done ELSE [st.done EXCEPT ![it + 1] = TRUE]
      Assigned(w) ==
        IF w.err # "None" THEN OptionsThrow(st, w.tree, w.err, w.seg)
        ELSE [st |-> [st EXCEPT !.op = "arg", !.i = @ + 1, !.done = Marked], pt |-> w.tree]
      Looked(r) ==
        IF r.err # "None" THEN OptionsThrow(st, r.tree, r.err, r.seg)
        ELSE IF NodeAt(r.tree, r.at).values[r.leaf] # <<>>
             THEN OptionsThrow(st, r.tree, "AlreadySpecified", key)
        ELSE Assigned(IndexAssign(r.tree, key, value))
  IN IF st.overwrite THEN Assigned(IndexAssign(pt, key, value))
     ELSE Looked(IndexMut(pt, key))

\* a variant of the branch of an argument that begins with "--" which stores
\* the value before it tests whether the key is known; C19_UnknownParameter
\* has to tell it from NamedOption
NamedOptionStoresFirst(st, pt, opt) ==
  LET Tested(key, it, r) ==
        IF r.st.err = "None" /\ (~st.allow_more) /\ it = npos
        THEN OptionsThrow(st, r.pt, "UnknownParameter", key)
        ELSE r
      Keyed(key, value, it) == Tested(key, it, StoreOption(st, pt, key, value, it))
      Found(key, value) == Keyed(key, value, FindKeyword(st.keywords, key))
      At_(pos) ==
        IF pos = npos THEN OptionsThrow(st, pt, "ValueMissing", opt)
        ELSE Found(substr(opt, 2, pos - 2), substr(opt, pos + 1, Len(opt) - pos - 1))
  IN At_(IF Len(opt) > 2 THEN FindFrom(opt, "=", 2) ELSE npos)

\* the branch of an argument that begins with "--"
NamedOption(st, pt, opt) ==
  LET Keyed(key, value, it) ==
        IF (~st.allow_more) /\ it = npos
        THEN OptionsThrow(st, pt, "UnknownParameter", key)
        ELSE StoreOption(st, pt, key, value, it)
      Found(key, value) == Keyed(key, value, FindKeyword(st.keywords, key))
      At_(pos) ==
        IF pos = npos THEN OptionsThrow(st, pt, "ValueMissing", opt)
        ELSE Found(substr(opt, 2, pos - 2), substr(opt, pos + 1, Len(opt) - pos - 1))
  IN At_(IF Len(opt) > 2 THEN FindFrom(opt, "=", 2) ELSE npos)

\* a variant of the branch of any other argument that does not pass over the
\* keywords done, which C20_Positional has to tell from UnnamedOption
UnnamedOptionNoSkip(st, pt, opt) ==
  LET Taken(current) ==
        IF current >= Len(st.done)
        THEN OptionsThrow([st EXCEPT !.current = current], pt, "Superfluous", <<>>)
        ELSE StoreOption([st EXCEPT !.current = current + 1], pt,
                         At(st.keywords, current), opt, current)
  IN Taken(st.current)

\* the branch of any other argument: the next keyword not done takes it
UnnamedOption(st, pt, opt) ==
  LET Taken(current) ==
        IF current >= Len(st.done)
        THEN OptionsThrow([st EXCEPT !.current = current], pt, "Superfluous", <<>>)
        ELSE StoreOption([st EXCEPT !.current = current], pt,
                         At(st.keywords, current), opt, current)
  IN Taken(CHOOSE c \in st.current..Len(st.done) :
             /\ c = Len(st.done) \/ ~st.done[c + 1]
             /\ \A d \in st.current..(c - 1) : st.done[d + 1])

\* one pass of the for loop, on argv[i]
NamedOptionsStep(st, pt) ==
  LET Opt(opt) ==
        IF opt = <<"-", "h">> \/ opt = <<"-", "-", "h", "e", "l", "p">>
        THEN OptionsThrow(st, pt, "Help", <<>>)
        ELSE IF substr(opt, 0, 2) = <<"-", "-">> THEN NamedOption(st, pt, opt)
        ELSE UnnamedOption(st, pt, opt)
  IN Opt(At(st.argv, st.i))

\* the keywords required and not done, each after a space
RECURSIVE MissingFrom(_, _)
MissingFrom(st, i) ==
  IF i >= Len(st.keywords) THEN <<>>
  ELSE (IF i < st.required /\ ~st.done[i + 1] THEN <<" ">> \o At(st.keywords, i) ELSE <<>>)
         \o MissingFrom(st, i + 1)

\* the test after the loop that every required keyword was given
NamedOptionsEnd(st) ==
  LET Checked(missing) ==
        IF Len(missing) # 0
        THEN [st EXCEPT !.op = "return", !.err = "MissingParameters", !.seg = missing]
        ELSE [st EXCEPT !.op = "return"]
  IN Checked(MissingFrom(st, 0))

\* the for loop of readNamedOptions and the test after it
RECURSIVE NamedOptionsLoop(_)
NamedOptionsLoop(r) ==
  IF r.st.err # "None" THEN r
  ELSE IF r.st.i >= Len(r.st.argv) THEN [st |-> NamedOptionsEnd(r.st), pt |-> r.pt]
  ELSE NamedOptionsLoop(NamedOptionsStep(r.st, r.pt))

\* readNamedOptions(argc, argv, pt, keywords, required, allow_more, overwrite):
\* the error thrown and the tree left
readNamedOptions(argv, pt, keywords, required, allow_more, overwrite) ==
  LET Result(r) == [err |-> r.st.err, seg |-> r.st.seg, tree |-> r.pt]
  IN Result(NamedOptionsLoop(
       [st |-> OptionsInit(argv, keywords, required, allow_more, overwrite), pt |-> pt]))

\* the locals of readOptions at the entry of its loop
ReadOptionsInit(argv) ==
  [op |-> "options", argv |-> argv, i |-> 1, err |-> "None", seg |-> <<>>]

\* one pass of the for loop of readOptions, on argv[i]: an argument that
\* begins with "-" and has a character after it is the key of the argument
\* after it, which is passed over; argv[argc] is the null pointer
ReadOptionsStep(st, pt) ==
  LET Assigned(w) ==
        IF w.err # "None"
        THEN [st |-> [st EXCEPT !.op = "option", !.err = w.err, !.seg = w.seg],
              pt |-> w.tree]
        ELSE [st |-> [st EXCEPT !.op = "option", !.i = @ + 2], pt |-> w.tree]
      Opt(opt) ==
        IF Len(opt) >= 2 /\ At(opt, 0) = "-"
        THEN IF st.i + 1 = Len(st.argv)
             THEN [st |-> [st EXCEPT !.op = "option", !.err = "ArgumentMissing",
                                     !.seg = opt],
                   pt |-> pt]
             ELSE Assigned(IndexAssign(pt, substr(opt, 1, npos), At(st.argv, st.i + 1)))
        ELSE [st |-> [st EXCEPT !.op = "option", !.i = @ + 1], pt |-> pt]
  IN Opt(At(st.argv, st.i))

\* the for loop of readOptions
RECURSIVE ReadOptionsLoop(_)
ReadOptionsLoop(r) ==
  IF r.st.err # "None" \/ r.st.i >= Len(r.st.argv) THEN r
  ELSE ReadOptionsLoop(ReadOptionsStep(r.st, r.pt))

\* readOptions(argc, argv, pt): the error thrown and the tree left
readOptions(argv, pt) ==
  LET Result(r) == [err |-> r.st.err, seg |-> r.st.seg, tree |-> r.pt]
  IN Result(ReadOptionsLoop([st |-> ReadOptionsInit(argv), pt |-> pt]))

MaxArgs == 3

\* the keyword lists of the calls: two plain keywords, and a keyword with the
\* dotted keyword below it
OptKeywords == {<<<<"a">>, <<"b">>>>, <<<<"a">>, <<"a", ".", "b">>>>}

\* the arguments given after the name of the program
OptArgs ==
  { <<"-", "-", "a", "=", "1">>, <<"-", "-", "b", "=", "2">>, <<"-", "-", "a", "=">>,
    <<"-", "-", "x", "=", "1">>, <<"-", "-", "x">>, <<"1">>, <<"-", "h">>,
    <<"-", "-", "a", ".", "b", "=", "2">> }

OptArgv == {<<<<"p">>>> \o args : args \in UNION {[1..n -> OptArgs] : n \in 0..MaxArgs}}

\* the trees the options are read into: an empty one, one that holds b, one
\* that holds a with the empty string, one in which b is a value and a subtree
\* (pt.sub("b"); pt["b"] = "0") and one with the subtree x
OptTrees ==
  {EmptyTree, IndexAssign(EmptyTree, <<"b">>, <<"0">>).tree,
   IndexAssign(EmptyTree, <<"a">>, <<>>).tree,
   IndexAssign(subMut(EmptyTree, <<"b">>).tree, <<"b">>, <<"0">>).tree,
   subMut(EmptyTree, <<"x">>).tree}

\* the arguments given to readOptions after the name of the program
PairArgs ==
  { <<"-", "a">>, <<"-", "b">>, <<"-", "a", ".", "b">>, <<"-", "-", "a", "=", "1">>,
    <<"-">>, <<"1">> }

PairArgv == {<<<<"p">>>> \o args : args \in UNION {[1..n -> PairArgs] : n \in 0..MaxArgs}}

\* a call of readNamedOptions or of readOptions is about to be made
OptInit ==
  /\ tree \in OptTrees
  /\ last \in {OptionsInit(argv, keywords, required, allow_more, overwrite) :
                 argv \in OptArgv, keywords \in OptKeywords, required \in 0..2,
                 allow_more \in BOOLEAN, overwrite \in BOOLEAN}
               \cup {ReadOptionsInit(argv) : argv \in PairArgv}
  /\ nops = 0

\* one pass of the for loop of readNamedOptions
OptArg ==
  /\ last.op \in {"args", "arg"}
  /\ last.err = "None"
  /\ last.i < Len(last.argv)
  /\ LET Done(r) == tree' = r.pt /\ last' = r.st
     IN Done(NamedOptionsStep(last, tree))
  /\ UNCHANGED nops

\* the end of readNamedOptions after the last argument
OptReturn ==
  /\ last.op \in {"args", "arg"}
  /\ last.err = "None"
  /\ last.i = Len(last.argv)
  /\ last' = NamedOptionsEnd(last)
  /\ UNCHANGED <<tree, nops>>

\* one pass of the for loop of readOptions
OptPair ==
  /\ last.op \in {"options", "option"}
  /\ last.err = "None"
  /\ last.i < Len(last.argv)
  /\ LET Done(r) == tree' = r.pt /\ last' = r.st
     IN Done(ReadOptionsStep(last, tree))
  /\ UNCHANGED nops

OptNext == OptArg \/ OptReturn \/ OptPair

OptSpec == OptInit /\ [][OptNext]_vars

-----------------------------------------------------------------------------
(* The notions the properties are stated in, read off the tree itself and   *)
(* not through the accessors.                                               *)

\* the segments of a dotted key
RECURSIVE Segments(_)
Segments(key) ==
  IF Find(key, ".") = npos THEN <<key>>
  ELSE <<substr(key, 0, Find(key, "."))>>
         \o Segments(substr(key, Find(key, ".") + 1, npos))

Front(s) == SubSeq(s, 1, Len(s) - 1)

Range(s) == {s[i] : i \in 1..Len(s)}

IsPrefix(s, u) == Len(s) <= Len(u) /\ SubSeq(u, 1, Len(s)) = s

\* every node of a tree
RECURSIVE Nodes(_)
Nodes(t) == {t} \cup UNION {Nodes(t.subs[k]) : k \in DOMAIN t.subs}

\* the node reached from t through the subtrees that segs names
RECURSIVE Reach(_, _)
Reach(t, segs) ==
  IF segs = <<>> THEN [ok |-> TRUE, node |-> t]
  ELSE IF Head(segs) \in DOMAIN t.subs THEN Reach(t.subs[Head(segs)], Tail(segs))
  ELSE [ok |-> FALSE, node |-> EmptyTree]

\* the node that holds the last segment of a dotted key
Parent(t, key) == Reach(t, Front(Segments(key)))

LastSeg(key) == Segments(key)[Len(Segments(key))]

\* a value exists at exactly the dotted key
NamesValue(t, key) ==
  Parent(t, key).ok /\ LastSeg(key) \in DOMAIN Parent(t, key).node.values

\* a subtree exists at exactly the dotted key
NamesSubtree(t, key) ==
  Parent(t, key).ok /\ LastSeg(key) \in DOMAIN Parent(t, key).node.subs

\* walking down the existing subtrees, the first segment that is a leaf value
\* of the node reached so far
RECURSIVE ValueSegment(_, _)
ValueSegment(t, segs) ==
  IF segs = <<>> THEN [hit |-> FALSE, seg |-> <<>>]
  ELSE IF Head(segs) \in DOMAIN t.values THEN [hit |-> TRUE, seg |-> Head(segs)]
  ELSE IF Head(segs) \in DOMAIN t.subs THEN ValueSegment(t.subs[Head(segs)], Tail(segs))
  ELSE [hit |-> FALSE, seg |-> <<>>]

\* walking down the existing subtrees, the first segment that is a leaf value
\* and a subtree of the node reached so far
RECURSIVE BothSegment(_, _)
BothSegment(t, segs) ==
  IF segs = <<>> \/ Head(segs) \notin DOMAIN t.subs THEN [hit |-> FALSE, seg |-> <<>>]
  ELSE IF Head(segs) \in DOMAIN t.values THEN [hit |-> TRUE, seg |-> Head(segs)]
  ELSE BothSegment(t.subs[Head(segs)], Tail(segs))

\* the report with the values and the subtrees of every node in the order of
\* getValueKeys() and getSubKeys()
RECURSIVE ReportInsertionOrder(_, _)
ReportInsertionOrder(t, prefix) ==
  LET vk == getValueKeys(t)
      sk == getSubKeys(t)
      ValueLines[i \in 0..Len(vk)] ==
        IF i = 0 THEN <<>>
        ELSE ValueLines[i - 1] \o vk[i] \o <<" ", "=", " ", "\"">>
               \o t.values[vk[i]] \o <<"\"", "\n">>
      SubBlocks[i \in 0..Len(sk)] ==
        IF i = 0 THEN <<>>
        ELSE SubBlocks[i - 1] \o <<"[", " ">> \o prefix \o t.prefix \o sk[i]
               \o <<" ", "]", "\n">> \o ReportInsertionOrder(t.subs[sk[i]], prefix)
  IN ValueLines[Len(vk)] \o SubBlocks[Len(sk)]

\* the same key sequences at every level and the same value at every key
RECURSIVE SameKeysAndValues(_, _)
SameKeysAndValues(p1, p2) ==
  /\ getValueKeys(p1) = getValueKeys(p2)
  /\ getSubKeys(p1) = getSubKeys(p2)
  /\ DOMAIN p1.values = DOMAIN p2.values
  /\ DOMAIN p1.subs = DOMAIN p2.subs
  /\ \A k \in DOMAIN p1.values : p1.values[k] = p2.values[k]
  /\ \A k \in DOMAIN p1.subs : SameKeysAndValues(p1.subs[k], p2.subs[k])

\* getValueKeys() and getSubKeys() hold exactly the keys of the maps, each once
KeysMirror(n) ==
  /\ Range(getValueKeys(n)) = DOMAIN n.values
  /\ Len(getValueKeys(n)) = Cardinality(DOMAIN n.values)
  /\ Range(getSubKeys(n)) = DOMAIN n.subs
  /\ Len(getSubKeys(n)) = Cardinality(DOMAIN n.subs)

\* every node of t is in u, its key sequences only extended at their ends
RECURSIVE OrderKept(_, _)
OrderKept(t, u) ==
  /\ IsPrefix(getValueKeys(t), getValueKeys(u))
  /\ IsPrefix(getSubKeys(t), getSubKeys(u))
  /\ \A k \in DOMAIN t.subs :
       k \in DOMAIN u.subs /\ OrderKept(t.subs[k], u.subs[k])

-----------------------------------------------------------------------------
(* The properties. *)

\* C1: no node holds the same leaf-key both in its values and in its subtrees.
\* Refuted: pt["a.b"] = v followed by pt["a"] = v leaves a in both maps of the root.
C1_KeyKindExclusive ==
  \A n \in Nodes(tree) : DOMAIN n.values \cap DOMAIN n.subs = {}

\* C2: a mutable or read-only sub(key), one of whose segments is a leaf value
\* of the node reached so far, throws the collision error naming that segment
\* and leaves the tree as it was.
C2_SubCollision ==
  [][ (last'.op \in {"subMut", "subConst"}
         /\ ValueSegment(tree, Segments(last'.key)).hit)
      => /\ last'.err = "Collision"
         /\ last'.seg = ValueSegment(tree, Segments(last'.key)).seg
         /\ tree' = tree ]_vars

\* C2 witness: the mutable sub threw on the last segment of a dotted key, which
\* is a leaf value of an existing subtree
C2_Witness ==
  /\ last.op = "subMut"
  /\ last.err = "Collision"
  /\ Len(Segments(last.key)) > 1
  /\ last.seg = LastSeg(last.key)
  /\ NamesValue(tree, last.key)

\* C3: get<T>(y) and the read-only operator[] at a key that names a subtree
\* and no value throw the collision error.
\* Refuted: they throw "Key ... not found".
C3_ReadSubtreeCollides ==
  (last.op \in {"get", "index"}
     /\ NamesSubtree(tree, last.key) /\ ~NamesValue(tree, last.key))
  => last.err = "Collision"

\* C4: hasKey(key) is true iff a value exists at exactly key, hasSub(key) iff a
\* subtree does; a missing intermediate subtree gives false, and an
\* intermediate segment that is a leaf value gives the collision error.
\* Refuted: hasKey("a.b") with a leaf value a returns false.
C4_HasKeyHasSub ==
  last.op \in {"hasKey", "hasSub"}
  => IF ValueSegment(tree, Front(Segments(last.key))).hit
     THEN last.err = "Collision"
     ELSE /\ last.err = "None"
          /\ last.val = IF last.op = "hasKey" THEN NamesValue(tree, last.key)
                        ELSE NamesSubtree(tree, last.key)

\* C5: after pt[p] = v has returned, pt[p] reads v and hasKey(p) is true, and
\* for p = a.rest hasSub(a) is true and sub(a)[rest] reads v.
\* Refuted: after pt["a.b"] = v and pt["a"] = v, hasKey("a") throws.
C5_WriteThenRead ==
  (last.op = "write" /\ last.err = "None")
  => /\ IndexConst(tree, last.key) = Ret(last.arg)
     /\ hasKey(tree, last.key) = Ret(TRUE)
     /\ Len(Segments(last.key)) > 1
        => /\ hasSub(tree, Head(Segments(last.key))) = Ret(TRUE)
           /\ subConst(tree, Head(Segments(last.key)), FALSE).err = "None"
           /\ IndexConst(subConst(tree, Head(Segments(last.key)), FALSE).val,
                         substr(last.key, Find(last.key, ".") + 1, npos))
                = Ret(last.arg)

\* C6: the read-only sub(key, fail_if_missing), when a segment of key is
\* missing as a subtree, throws NotFound in failing mode and returns the empty
\* node otherwise.
\* Refuted: sub("a.b", true) on a tree without a returns the empty node.
C6_SubMissing ==
  (last.op = "subConst"
     /\ ~NamesSubtree(tree, last.key)
     /\ ~ValueSegment(tree, Segments(last.key)).hit)
  => IF last.arg THEN last.err = "NotFound"
     ELSE last.err = "None" /\ last.val = EmptyTree

\* C7: in every step the key sequences of every node hold exactly the keys of
\* its values and of its subtrees, each once, and the sequences of the nodes
\* there before the step are only extended at their ends, so that the order is
\* that of first insertion and an overwrite or a re-fetch changes nothing.
C7_KeyOrder ==
  [][ (\A n \in Nodes(tree') : KeysMirror(n)) /\ OrderKept(tree, tree') ]_vars

\* C7 witness: a second key was written after a first that is greater in
\* lexical order, and a second subtree fetched likewise
C7_Witness ==
  /\ last.op \in {"write", "subMut"}
  /\ \E n \in Nodes(tree) :
       \/ Len(getValueKeys(n)) = 2
          /\ StrLess(getValueKeys(n)[2], getValueKeys(n)[1])
       \/ Len(getSubKeys(n)) = 2
          /\ StrLess(getSubKeys(n)[2], getSubKeys(n)[1])

\* C8: report writes the values and the subtrees of every level in the order
\* of first insertion.
\* Refuted: after pt["b"] = v and pt["a"] = v the line of a comes first.
C8_ReportOrder ==
  last.op = "report" => last.val = ReportInsertionOrder(tree, <<>>)

\* C9: reading the report of a tree into an empty tree gives a tree with the
\* same key sequences at every level and the same value at every key.
\* Refuted: the tree read back has its keys in lexical order, and has no
\* subtree that holds no value.
C9_RoundTrip ==
  last.op = "testReport" => last.err = "None" /\ SameKeysAndValues(tree, last.val)

\* C10 as stated: the accessors with a default never throw; they return the
\* default when no value exists at the key and what get<T>(key) returns
\* otherwise.
\* Refuted: get<int>("a", 7) throws when the string at a is no integer.
C10_NeverFails ==
  last.op \in {"getIntDefault", "getStrDefault"}
  => /\ last.err = "None"
     /\ last.val =
          IF ~NamesValue(tree, last.key) THEN last.arg
          ELSE IF last.op = "getIntDefault" THEN Get(tree, last.key, "int").val
          ELSE Get(tree, last.key, "string").val

\* C10 as amended: an accessor with a default throws the collision error when a
\* segment of the key is both a leaf value and a subtree of the node reached;
\* otherwise it returns the default when no value exists at the key; otherwise
\* get<T>(key, default) does what get<T>(key) does, a parse failure included,
\* and the accessors with a string default return the stored string untrimmed.
C10_DefaultAccessor ==
  last.op \in {"getIntDefault", "getStrDefault"}
  => IF BothSegment(tree, Segments(last.key)).hit
     THEN last.err = "Collision"
            /\ last.seg = BothSegment(tree, Segments(last.key)).seg
     ELSE IF ~NamesValue(tree, last.key)
          THEN last.err = "None" /\ last.val = last.arg
     ELSE IF last.op = "getIntDefault"
          THEN /\ last.err = Get(tree, last.key, "int").err
               /\ last.val = Get(tree, last.key, "int").val
               /\ last.err = "ParseFailure"
                    <=> ~ParseInt(Parent(tree, last.key).node.values[LastSeg(last.key)]).ok
          ELSE /\ last.err = "None"
               /\ last.val = Parent(tree, last.key).node.values[LastSeg(last.key)]

\* C10 witness: get<int>(key, 7) threw the parse failure of the string stored
C10_Witness ==
  /\ last.op = "getIntDefault"
  /\ last.err = "ParseFailure"
  /\ NamesValue(tree, last.key)

-----------------------------------------------------------------------------
(* The notions the properties of the parsers are stated in. *)

\* a set of numbers in ascending order
RECURSIVE Ascending(_)
Ascending(S) ==
  IF S = {} THEN <<>>
  ELSE <<CHOOSE i \in S : \A j \in S : i <= j>>
         \o Ascending(S \ {CHOOSE i \in S : \A j \in S : i <= j})

\* the maximal runs of characters other than space, tab, CR and LF, from left
\* to right
Tokens(s) ==
  LET NonWS(i) == s[i] \notin {" ", "\t", "\r", "\n"}
      starts == Ascending({i \in 1..Len(s) : NonWS(i) /\ (i = 1 \/ ~NonWS(i - 1))})
      ends == Ascending({i \in 1..Len(s) : NonWS(i) /\ (i = Len(s) \/ ~NonWS(i + 1))})
  IN [k \in 1..Len(starts) |-> SubSeq(s, starts[k], ends[k])]

\* the string without the white space at its two ends
Stripped(s) ==
  LET inked == {i \in 1..Len(s) : ~IsWS(s[i])}
  IN IF inked = {} THEN <<>>
     ELSE SubSeq(s, CHOOSE i \in inked : \A j \in inked : i <= j,
                    CHOOSE i \in inked : \A j \in inked : i >= j)

Digit(c) == c \in {"0", "1", "2", "3", "4", "5", "6", "7", "8", "9"}

\* a decimal literal of an int: an optional sign and one digit or more, few
\* enough for the value to be in the range of int
IsIntLiteral(s) ==
  LET digits == IF s # <<>> /\ s[1] \in {"+", "-"} THEN Tail(s) ELSE s
  IN digits # <<>> /\ Len(digits) <= 9 /\ \A i \in 1..Len(digits) : Digit(digits[i])

\* equal but for the case of the letters
EqualsIgnoringCase(s, w) ==
  /\ Len(s) = Len(w)
  /\ \A i \in 1..Len(s) :
       \/ s[i] = w[i]
       \/ \E k \in 1..26 : {s[i], w[i]} = {UpperCase[k], LowerCase[k]}

-----------------------------------------------------------------------------
(* The properties of the parsers. *)

\* C11: get<int> on an absent key throws NotFound; on a key that is there it
\* returns iff the string stored, apart from the white space at its ends, is
\* one literal of an int, and throws ParseFailure otherwise.
\* Refuted: the string "1 -" is read as 1.
C11_ScalarStrict ==
  last.op = "getInt"
  => IF ~NamesValue(tree, last.key) THEN last.err = "NotFound"
     ELSE IF IsIntLiteral(Stripped(last.arg)) THEN last.err = "None"
     ELSE last.err = "ParseFailure"

\* C12: the bool parser gives true for a string equal, but for the case of its
\* letters, to yes or true, and false for no or false; on any other string it
\* gives what the int parser gives, compared with 0, and fails iff that fails.
C12_BoolParse ==
  last.op = "parseBool"
  => IF EqualsIgnoringCase(last.key, <<"y", "e", "s">>)
          \/ EqualsIgnoringCase(last.key, <<"t", "r", "u", "e">>)
     THEN last.err = "None" /\ last.val = TRUE
     ELSE IF EqualsIgnoringCase(last.key, <<"n", "o">>)
               \/ EqualsIgnoringCase(last.key, <<"f", "a", "l", "s", "e">>)
          THEN last.err = "None" /\ last.val = FALSE
     ELSE IF ParseInt(last.key).ok
          THEN last.err = "None" /\ last.val = (ParseInt(last.key).val # 0)
     ELSE last.err = "ParseFailure"

\* C12 witness: a word with a capital letter was parsed as a bool
C12_Witness ==
  /\ last.op = "parseBool"
  /\ last.err = "None"
  /\ \E i \in 1..Len(last.key), k \in 1..26 : last.key[i] = UpperCase[k]

\* C13: the parse of a string as an array of n ints succeeds iff the string is
\* n tokens divided by white space, each of which the int parser accepts, and
\* then gives their values in order.
\* Refuted: "1-0" is read as the two ints 1 and 0 negated, "1 -" as the one int 1.
C13_ArrayParse ==
  last.op = "parseArray"
  => IF Len(Tokens(last.key)) = last.arg
          /\ \A i \in 1..Len(Tokens(last.key)) : ParseInt(Tokens(last.key)[i]).ok
     THEN /\ last.err = "None"
          /\ last.val = [i \in 1..last.arg |-> ParseInt(Tokens(last.key)[i]).val]
     ELSE last.err = "ParseFailure"

\* C14: split gives the maximal runs of characters other than space, tab, CR
\* and LF, from left to right; the parse as a vector of T gives the parse of
\* each run in that order, and fails when the parser of T fails on one of them.
C14_SplitAndVector ==
  /\ last.op = "split" => last.val = Tokens(last.key)
  /\ last.op = "parseVector"
     => IF \A i \in 1..Len(Tokens(last.key)) : Parse(last.arg, Tokens(last.key)[i]).ok
        THEN /\ last.err = "None"
             /\ last.val = [i \in 1..Len(Tokens(last.key)) |->
                              Parse(last.arg, Tokens(last.key)[i]).val]
        ELSE last.err = "ParseFailure"

\* C14 witness: a string that begins with white space and ends with a run was
\* split into two runs
C14_Witness ==
  /\ last.op = "split"
  /\ Len(last.val) = 2
  /\ IsWS(last.key[1])
  /\ ~IsWS(last.key[Len(last.key)])

-----------------------------------------------------------------------------
(* The notions the properties of readINITree are stated in: the lines of    *)
(* the text and what the format makes of each.                              *)

\* the lines of a text, divided at its line feeds
RECURSIVE TextLines(_)
TextLines(text) ==
  IF \A i \in 1..Len(text) : text[i] # "\n" THEN <<text>>
  ELSE LET nl == CHOOSE i \in 1..Len(text) :
                   text[i] = "\n" /\ \A j \in 1..(i - 1) : text[j] # "\n"
       IN <<SubSeq(text, 1, nl - 1)>> \o TextLines(SubSeq(text, nl + 1, Len(text)))

\* the place of the first c in s, 0 when there is none
FirstOf(s, c) ==
  IF \A i \in 1..Len(s) : s[i] # c THEN 0
  ELSE CHOOSE i \in 1..Len(s) : s[i] = c /\ \A j \in 1..(i - 1) : s[j] # c

IsBlankLine(line) == Stripped(line) = <<>>

IsCommentLine(line) == Stripped(line) # <<>> /\ Stripped(line)[1] = "#"

\* a line [prefix]
IsSectionLine(line) ==
  /\ Len(Stripped(line)) >= 2
  /\ Stripped(line)[1] = "["
  /\ Stripped(line)[Len(Stripped(line))] = "]"

SectionName(line) == Stripped(SubSeq(Stripped(line), 2, Len(Stripped(line)) - 1))

\* a line key = value
IsEntryLine(line) ==
  /\ Stripped(line) # <<>>
  /\ Stripped(line)[1] \notin {"#", "["}
  /\ FirstOf(line, "=") # 0
  /\ FirstOf(line, "#") = 0 \/ FirstOf(line, "=") < FirstOf(line, "#")

EntryKey(line) == Stripped(SubSeq(line, 1, FirstOf(line, "=") - 1))

\* the text of an entry line after its "=", without the white space at its ends
EntryText(line) == Stripped(SubSeq(line, FirstOf(line, "=") + 1, Len(line)))

IsQuoted(line) == EntryText(line) # <<>> /\ EntryText(line)[1] \in {"'", "\""}

\* the value begins and ends on the line with the same quote, which does not
\* occur between the two
QuotedOnLine(line) ==
  /\ IsQuoted(line)
  /\ Len(EntryText(line)) >= 2
  /\ EntryText(line)[Len(EntryText(line))] = EntryText(line)[1]
  /\ \A i \in 2..(Len(EntryText(line)) - 1) : EntryText(line)[i] # EntryText(line)[1]

\* the value the format gives an entry line whose value ends on that line
EntryValue(line) ==
  IF QuotedOnLine(line) THEN SubSeq(EntryText(line), 2, Len(EntryText(line)) - 1)
  ELSE Stripped(SubSeq(line, FirstOf(line, "=") + 1,
                       IF FirstOf(line, "#") = 0 THEN Len(line)
                       ELSE FirstOf(line, "#") - 1))

\* no value of the text goes on past the end of its line
ValuesEndOnTheirLines(lines) ==
  \A i \in 1..Len(lines) :
    IsEntryLine(lines[i]) => (~IsQuoted(lines[i]) \/ QuotedOnLine(lines[i]))

\* the name in the most recent line [prefix] among the lines
ActivePrefix(lines) ==
  LET S == {i \in 1..Len(lines) : IsSectionLine(lines[i])}
  IN IF S = {} THEN <<>>
     ELSE SectionName(lines[CHOOSE i \in S : \A j \in S : i >= j])

\* the path of line i of the lines, an entry line
EntryPath(lines, i) ==
  IF ActivePrefix(SubSeq(lines, 1, i - 1)) = <<>> THEN EntryKey(lines[i])
  ELSE ActivePrefix(SubSeq(lines, 1, i - 1)) \o <<".">> \o EntryKey(lines[i])

Entries(lines) == {i \in 1..Len(lines) : IsEntryLine(lines[i])}

\* the call is over: the stream is at its end or an error was thrown
CallOver == last.op = "line" /\ (last.in.eof \/ last.err # "None")

\* C15: each line key = value is stored at the path made of the name in the
\* most recent line [prefix] before it and of key.  Stated of the calls that
\* overwrite and return, on texts whose values end on their lines.
\* Refuted: the lines after a = "1#2" are taken into the value of a.
C15_SectionPrefix ==
  (CallOver /\ last.err = "None" /\ last.overwrite
     /\ ValuesEndOnTheirLines(TextLines(last.text)))
  => \A i \in Entries(TextLines(last.text)) :
       NamesValue(tree, EntryPath(TextLines(last.text), i))

\* C16: a call whose text has two lines key = value of the same path fails,
\* whatever the overwrite flag; it fails with DuplicateKey only if there are
\* two such lines.  Stated on texts whose values end on their lines.
\* Refuted: the call on a = "1#2" followed by a = 1 returns.
C16_DuplicateKey ==
  (CallOver /\ ValuesEndOnTheirLines(TextLines(last.text)))
  => /\ (\E i, j \in Entries(TextLines(last.text)) :
           i < j /\ EntryPath(TextLines(last.text), i) = EntryPath(TextLines(last.text), j))
        => last.err # "None"
     /\ last.err = "DuplicateKey"
        => \E i, j \in Entries(TextLines(last.text)) :
             i < j /\ EntryPath(TextLines(last.text), i) = EntryPath(TextLines(last.text), j)

\* C17: the value stored for a line key = value is the text between its quotes
\* as it stands when the value is quoted, and otherwise the text up to the
\* first # without the white space at its ends.  Stated of the calls that
\* overwrite and return, on texts whose values end on their lines and whose
\* lines have different paths.
\* Refuted: a = "1#2" stores 1 and what follows, not 1#2.
C17_ValueText ==
  (CallOver /\ last.err = "None" /\ last.overwrite
     /\ ValuesEndOnTheirLines(TextLines(last.text)))
  => \A i \in Entries(TextLines(last.text)) :
       /\ NamesValue(tree, EntryPath(TextLines(last.text), i))
       /\ Parent(tree, EntryPath(TextLines(last.text), i)).node.values[
            LastSeg(EntryPath(TextLines(last.text), i))] = EntryValue(TextLines(last.text)[i])

-----------------------------------------------------------------------------
(* The notions the properties of readNamedOptions are stated in: what an    *)
(* argument says, read off its text, and which keywords the arguments       *)
(* before it have given, read off the argument list.                        *)

\* the value the tree holds under a key it names
ValueAt(t, key) == Parent(t, key).node.values[LastSeg(key)]

\* the argument asks for the help text
IsHelpArg(opt) == opt = <<"-", "h">> \/ opt = <<"-", "-", "h", "e", "l", "p">>

\* the argument starts with --
StartsNamed(opt) == Len(opt) >= 2 /\ opt[1] = "-" /\ opt[2] = "-"

\* the argument is of the form --key=value
NamedForm(opt) == StartsNamed(opt) /\ FirstOf(opt, "=") # 0

NamedKey(opt) == SubSeq(opt, 3, FirstOf(opt, "=") - 1)

NamedValue(opt) == SubSeq(opt, FirstOf(opt, "=") + 1, Len(opt))

\* the argument is positional: it does not start with -- and is not -h
Positional(opt) == (~StartsNamed(opt)) /\ ~IsHelpArg(opt)

\* the first keyword, in the order of the list, that is not among given
FirstFree(keywords, given) ==
  IF \A k \in 1..Len(keywords) : k \in given THEN 0
  ELSE CHOOSE k \in 1..Len(keywords) :
         k \notin given /\ \A j \in 1..(k - 1) : j \in given

\* the keywords given, by name or by position, by the arguments argv[2..n]
RECURSIVE GivenBy(_, _, _)
GivenBy(argv, keywords, n) ==
  IF n <= 1 THEN {}
  ELSE LET Added(given, opt) ==
             IF NamedForm(opt)
             THEN given \cup {k \in 1..Len(keywords) :
                                /\ keywords[k] = NamedKey(opt)
                                /\ \A j \in 1..(k - 1) : keywords[j] # NamedKey(opt)}
             ELSE IF Positional(opt) /\ FirstFree(keywords, given) # 0
             THEN given \cup {FirstFree(keywords, given)}
             ELSE given
       IN Added(GivenBy(argv, keywords, n - 1), argv[n])

\* the call is about to read an argument: the one at last.i
OptPass == last.op \in {"args", "arg"} /\ last.err = "None" /\ last.i < Len(last.argv)

\* the call is about to return
OptEnd == last.op \in {"args", "arg"} /\ last.err = "None" /\ last.i = Len(last.argv)

ThisArg == last.argv[last.i + 1]

\* the keywords given by the arguments before the one at last.i
GivenBefore == GivenBy(last.argv, last.keywords, last.i)

\* the argument at last.i has a target key: the key it names, unless the key
\* is unknown and unknown keys are refused, or the keyword its position maps to
HasTarget ==
  \/ /\ NamedForm(ThisArg)
     /\ last.allow_more \/ NamedKey(ThisArg) \in Range(last.keywords)
  \/ /\ Positional(ThisArg)
     /\ FirstFree(last.keywords, GivenBefore) # 0

Target ==
  IF NamedForm(ThisArg) THEN NamedKey(ThisArg)
  ELSE last.keywords[FirstFree(last.keywords, GivenBefore)]

\* C18: with overwrite disabled, an argument whose target key already has a
\* value in the tree, from an earlier argument of the call or from before the
\* call, fails with "parameter <key> already specified" and leaves the tree as
\* it was, the arguments stored before it included.
\* Refuted: after --a= the argument --a=1 is stored, and so is a positional
\* argument mapped to a keyword the tree holds with the empty string.
C18_AlreadySpecified ==
  [][(OptPass /\ (~last.overwrite) /\ HasTarget /\ NamesValue(tree, Target))
       => /\ last'.err = "AlreadySpecified"
          /\ last'.seg = Target
          /\ tree' = tree]_vars

\* the argument at last.i is --key=value with a key that is no keyword
UnknownKeyPass ==
  OptPass /\ NamedForm(ThisArg) /\ NamedKey(ThisArg) \notin Range(last.keywords)

\* the argument read by the step is stored under key and no keyword is marked
StoredAsExtra(key, value) ==
  /\ last'.err = "None"
  /\ NamesValue(tree', key)
  /\ ValueAt(tree', key) = value
  /\ last'.done = last.done
  /\ last'.current = last.current

\* C19 as the specification has it: --key=value with a key that is no keyword
\* fails with "unknown parameter <key>" and writes nothing when allow_more is
\* disabled, and is stored under key, counting toward no keyword, when it is
\* enabled.
\* Refuted: with allow_more enabled and overwrite disabled, --x=1 --x=1 fails
\* at the second argument.
C19_UnknownOrStored ==
  [][UnknownKeyPass
       => IF last.allow_more
          THEN StoredAsExtra(NamedKey(ThisArg), NamedValue(ThisArg))
          ELSE /\ last'.err = "UnknownParameter"
               /\ last'.seg = NamedKey(ThisArg)
               /\ tree' = tree]_vars

\* the assignment pt[key] = value throws before it changes the tree: a
\* segment of the key before its last is a value of the node reached, where
\* sub throws, or its last segment is a value and a subtree of the node
\* reached, where hasKey throws
RECURSIVE PathBlocked(_, _)
PathBlocked(t, segs) ==
  IF Len(segs) = 1 THEN Head(segs) \in DOMAIN t.values /\ Head(segs) \in DOMAIN t.subs
  ELSE \/ Head(segs) \in DOMAIN t.values
       \/ /\ Head(segs) \in DOMAIN t.subs
          /\ PathBlocked(t.subs[Head(segs)], Tail(segs))

\* the step fails with "key <segment> occurs as value and as subtree" and
\* leaves the tree as it was
FailsBlocked == last'.err = "Collision" /\ tree' = tree

\* the step fails with "parameter <key> already specified" and leaves the tree
\* as it was
FailsSpecified(key) ==
  last'.err = "AlreadySpecified" /\ last'.seg = key /\ tree' = tree

\* the step fails with "key <segment> occurs as value and as subtree" after the
\* test of overwrite has entered the key with the empty string beside the
\* subtree of its name
FailsTouched(key) ==
  /\ last'.err = "Collision"
  /\ last'.seg = LastSeg(key)
  /\ NamesValue(tree', key)
  /\ ValueAt(tree', key) = <<>>
  /\ NamesSubtree(tree', key)

\* how the step that holds a key for the argument at last.i fails, if it does:
\* 0 when it stores the argument
WriteFailure(key) ==
  IF PathBlocked(tree, Segments(key)) THEN 1
  ELSE IF (~last.overwrite) /\ NamesValue(tree, key) /\ ValueAt(tree, key) # <<>> THEN 2
  ELSE IF (~last.overwrite) /\ NamesSubtree(tree, key) THEN 3
  ELSE 0

\* the step fails as WriteFailure says
FailsAs(key) ==
  /\ WriteFailure(key) = 1 => FailsBlocked
  /\ WriteFailure(key) = 2 => FailsSpecified(key)
  /\ WriteFailure(key) = 3 => FailsTouched(key)

\* C19: --key=value with a key that is no keyword fails with "unknown
\* parameter <key>" and writes nothing when allow_more is disabled.  When
\* allow_more is enabled it is stored under key and counts toward no keyword,
\* unless the write fails: with "key <segment> occurs as value and as subtree"
\* and the tree as it was when a segment of key before the last is a value or
\* the last is a value and a subtree; with "parameter <key> already specified"
\* and the tree as it was when overwrite is disabled and the tree holds a value
\* other than the empty string under key; with "key <segment> occurs as value
\* and as subtree" and key entered with the empty string when overwrite is
\* disabled and key is a subtree.
C19_UnknownParameter ==
  [][UnknownKeyPass
       => IF ~last.allow_more
          THEN /\ last'.err = "UnknownParameter"
               /\ last'.seg = NamedKey(ThisArg)
               /\ tree' = tree
          ELSE /\ FailsAs(NamedKey(ThisArg))
               /\ WriteFailure(NamedKey(ThisArg)) = 0
                    => StoredAsExtra(NamedKey(ThisArg), NamedValue(ThisArg))]_vars

\* the argument just read
ArgRead == last.argv[last.i]

\* an argument --x=1 of a call that allows more keys has been read and stored,
\* and no keyword is marked for it
C19_Witness ==
  /\ last.op = "arg" /\ last.err = "None" /\ last.allow_more
  /\ NamedForm(ArgRead) /\ NamedKey(ArgRead) \notin Range(last.keywords)
  /\ NamesValue(tree, NamedKey(ArgRead))
  /\ ValueAt(tree, NamedKey(ArgRead)) = NamedValue(ArgRead)
  /\ \A k \in 1..Len(last.keywords) : ~last.done[k]

\* the keywords among the first required that the whole argument list leaves
\* not given
MissingKeywords ==
  {k \in 1..Len(last.keywords) :
     k <= last.required /\ k \notin GivenBy(last.argv, last.keywords, Len(last.argv))}

\* the keywords of a set from the k-th on, in the order of the list, each
\* after a space
RECURSIVE Listed(_, _, _)
Listed(keywords, which, k) ==
  IF k > Len(keywords) THEN <<>>
  ELSE (IF k \in which THEN <<" ">> \o keywords[k] ELSE <<>>)
         \o Listed(keywords, which, k + 1)

\* the step returns from the call if each of the first required keywords was
\* given, and fails with the list of the missing ones otherwise
ReturnsIfGiven ==
  OptEnd => /\ last'.op = "return"
            /\ tree' = tree
            /\ IF MissingKeywords = {} THEN last'.err = "None"
               ELSE /\ last'.err = "MissingParameters"
                    /\ last'.seg = Listed(last.keywords, MissingKeywords, 1)

\* the step stores the argument at last.i under the first keyword not given
StoredAtFirstFree ==
  /\ last'.err = "None"
  /\ NamesValue(tree', last.keywords[FirstFree(last.keywords, GivenBefore)])
  /\ ValueAt(tree', last.keywords[FirstFree(last.keywords, GivenBefore)]) = ThisArg

\* the step fails because every keyword has been given
FailsSuperfluous == last'.err = "Superfluous" /\ tree' = tree

\* C20 as the specification has it: each argument that does not start with --
\* is stored under the first keyword of the list not yet given in the call by
\* name or by position, and fails with "superfluous unnamed parameter" when
\* every keyword has been given; the call returns only if each of the first
\* required keywords was given, and fails with "missing parameter(s)" and the
\* missing ones otherwise.
\* Refuted: the argument -h is not stored, and with overwrite disabled an
\* argument mapped to a keyword the tree held before the call is not stored.
C20_PositionalAlways ==
  [][/\ (OptPass /\ ~StartsNamed(ThisArg))
          => IF FirstFree(last.keywords, GivenBefore) = 0 THEN FailsSuperfluous
             ELSE StoredAtFirstFree
     /\ ReturnsIfGiven]_vars

\* C20: each argument that does not start with -- and is not -h is mapped to
\* the first keyword of the list not yet given in the call by name or by
\* position: it fails with "superfluous unnamed parameter" when every keyword
\* has been given, and it is stored under that keyword otherwise, unless the
\* write fails: with "key <segment> occurs as value and as subtree" and the
\* tree as it was when a segment of the keyword before the last is a value or
\* the last is a value and a subtree; with "parameter <key> already specified"
\* and the tree as it was when overwrite is disabled and the tree holds a value
\* other than the empty string under the keyword; with "key <segment> occurs
\* as value and as subtree" and the keyword entered with the empty string when
\* overwrite is disabled and the keyword is a subtree.  The argument -h ends
\* the call with the help text and stores nothing.  The call returns only if
\* each of the first required keywords was given, and fails with "missing
\* parameter(s)" and the missing ones otherwise.
C20_Positional ==
  [][/\ (OptPass /\ Positional(ThisArg))
          => IF FirstFree(last.keywords, GivenBefore) = 0 THEN FailsSuperfluous
             ELSE /\ FailsAs(Target)
                  /\ WriteFailure(Target) = 0 => StoredAtFirstFree
     /\ (OptPass /\ IsHelpArg(ThisArg)) => (last'.err = "Help" /\ tree' = tree)
     /\ ReturnsIfGiven]_vars

\* a call has returned in which the first keyword was given by name and the
\* positional argument after it was stored under the second
C20_Witness ==
  /\ last.op = "return" /\ last.err = "None"
  /\ \E n \in 3..Len(last.argv) :
       /\ Positional(last.argv[n])
       /\ GivenBy(last.argv, last.keywords, n - 1) = {1}
       /\ NamedForm(last.argv[n - 1])
       /\ NamesValue(tree, last.keywords[2])
       /\ ValueAt(tree, last.keywords[2]) = last.argv[n]

-----------------------------------------------------------------------------
(* What a call that throws leaves behind. *)

\* the call left the tree it was made on as it was, if it threw Collision
LeftAsWas(t, r) == r.err = "Collision" => r.tree = t

\* C21: a mutable operator[] access, an assignment through it or a mutable
\* sub call that fails with Collision leaves the whole tree, at every node the
\* values, the subtrees and both sequences of keys, exactly as it was before
\* the call: no subtree of an earlier segment of the path has been created.
\* Stated of every call with a key of Keys on every tree the calls can build.
C21_FailureAtomic ==
  \A key \in Keys :
    /\ LeftAsWas(tree, IndexMut(tree, key))
    /\ LeftAsWas(tree, IndexAssign(tree, key, <<"1">>))
    /\ LeftAsWas(tree, subMut(tree, key))

\* a mutable sub call on a dotted path has failed with Collision at its last
\* segment, after it went through the subtree of the first, and the tree holds
\* that subtree and the value the call collided with
C21_Witness ==
  /\ last.op = "subMut" /\ last.err = "Collision"
  /\ Len(Segments(last.key)) > 1
  /\ NamesSubtree(tree, Head(Segments(last.key)))
  /\ NamesValue(tree, last.key)
  /\ last.seg = LastSeg(last.key)

-----------------------------------------------------------------------------
(* The end of readINITree. *)

\* the call is about to make a pass of its loop
IniPass == last.op \in {"open", "line"} /\ last.err = "None" /\ ~last.in.eof

\* the line the pass reads and the lines after it
PassLine == TextLines(last.in.rest)[1]

PassFollowing == Tail(TextLines(last.in.rest))

\* the line ends with the quote q, white space after it aside
EndsWith(line, q) == Stripped(line) # <<>> /\ Stripped(line)[Len(Stripped(line))] = q

\* the line opens a quoted value whose closing quote never appears: neither
\* the line, after the opening quote, nor a line after it ends with the quote
NeverCloses(line, following) ==
  /\ IsEntryLine(line)
  /\ IsQuoted(line)
  /\ ~EndsWith(Tail(EntryText(line)), EntryText(line)[1])
  /\ \A i \in 1..Len(following) : ~EndsWith(following[i], EntryText(line)[1])

\* the place of the opening quote of the value in an entry line
OpeningQuote(line) ==
  CHOOSE i \in (FirstOf(line, "=") + 1)..Len(line) :
    /\ line[i] \in {"'", "\""}
    /\ \A j \in (FirstOf(line, "=") + 1)..(i - 1) : line[j] \notin {"'", "\""}

\* the input from after the opening quote of its first line to its end
OpenedRest(rest) == SubSeq(rest, OpeningQuote(TextLines(rest)[1]) + 1, Len(rest))

\* the path of the entry the pass reads
PassPath == last.prefix \o EntryKey(PassLine)

====
